---- MODULE Spec2Model ----
(***************************************************************************)
(* A model of tools/wikidata.py: one run of                               *)
(* emit_person_with_ancestors_and_descendants over a query oracle.         *)
(*                                                                         *)
(* Strings are sequences of one-character strings, so that the string      *)
(* conversions of the program (normalize_qid, slugify_to_token, lower,     *)
(* sorted) are computed and not assumed.  None and the empty string are    *)
(* both <<>>: every test the program makes on an optional string is a      *)
(* truthiness test, which cannot tell them apart.                          *)
(***************************************************************************)
EXTENDS Integers, Sequences, FiniteSets, TLC

\* ------------------------------------------------------------------ bounds

\* External identifiers of the oracle's universe are Q1 .. Q<NumQ>.
NumQ == 3
\* Largest --depth, --descendant-depth and --ensure-fathers-depth explored.
MaxAncestorDepth == 2
MaxDescendantDepth == 1
MaxEnsureFathers == 1
\* Call-stack frames before the interpreter raises RecursionError.
RecursionLimit == 5

\* ----------------------------------------------------------------- strings

None == <<>>

Digits == <<"0", "1", "2", "3", "4", "5", "6", "7", "8", "9">>
Lowers == <<"a", "b", "c", "d", "e", "f", "g", "h", "i", "j", "k", "l", "m",
            "n", "o", "p", "q", "r", "s", "t", "u", "v", "w", "x", "y", "z">>
Uppers == <<"A", "B", "C", "D", "E", "F", "G", "H", "I", "J", "K", "L", "M",
            "N", "O", "P", "Q", "R", "S", "T", "U", "V", "W", "X", "Y", "Z">>
\* Characters outside ASCII letters and digits that the inputs use, in
\* code-point order; the last one is e-acute, whose NFKD form is e + U+0301.
Others == <<" ", "-", "/", ":", "_", "\\u00e9">>

Range(s) == {s[i] : i \in DOMAIN s}
IndexOf(s, c) == CHOOSE i \in DOMAIN s : s[i] = c
IsDigit(c) == c \in Range(Digits)
IsLower(c) == c \in Range(Lowers)
IsUpper(c) == c \in Range(Uppers)

\* Code-point order of the characters in use: " " < "-" < "/" < digits <
\* ":" < uppercase < "_" < lowercase < e-acute.
Ord(c) ==
    IF c = " " THEN 32
    ELSE IF c = "-" THEN 45
    ELSE IF c = "/" THEN 47
    ELSE IF IsDigit(c) THEN 47 + IndexOf(Digits, c)
    ELSE IF c = ":" THEN 58
    ELSE IF IsUpper(c) THEN 64 + IndexOf(Uppers, c)
    ELSE IF c = "_" THEN 95
    ELSE IF IsLower(c) THEN 96 + IndexOf(Lowers, c)
    ELSE 233

\* str.__lt__: lexicographic by code point, a proper prefix first.
RECURSIVE StrLess(_, _)
StrLess(a, b) ==
    IF b = <<>> THEN FALSE
    ELSE IF a = <<>> THEN TRUE
    ELSE IF Ord(Head(a)) # Ord(Head(b)) THEN Ord(Head(a)) < Ord(Head(b))
    ELSE StrLess(Tail(a), Tail(b))

\* sorted(set of str)
RECURSIVE sorted(_)
sorted(S) ==
    IF S = {} THEN <<>>
    ELSE LET m == CHOOSE x \in S : \A y \in S \ {x} : StrLess(x, y)
         IN  <<m>> \o sorted(S \ {m})

\* str.lower() on one character, and on a string.
LowerChar(c) == IF IsUpper(c) THEN Lowers[IndexOf(Uppers, c)] ELSE c
lower(s) == [i \in DOMAIN s |-> LowerChar(s[i])]

\* str.strip(): leading and trailing whitespace removed.
RECURSIVE LStrip(_)
LStrip(s) == IF s # <<>> /\ Head(s) = " " THEN LStrip(Tail(s)) ELSE s
RECURSIVE RStrip(_)
RStrip(s) ==
    IF s # <<>> /\ s[Len(s)] = " " THEN RStrip(SubSeq(s, 1, Len(s) - 1)) ELSE s
strip(s) == RStrip(LStrip(s))

\* s.rsplit("/", 1)[-1]: what follows the last "/", the whole of s without one.
RECURSIVE LastSegment(_)
LastSegment(s) ==
    IF \E i \in DOMAIN s : s[i] = "/"
    THEN LastSegment(Tail(s))
    ELSE s

StartsWith(s, p) == Len(s) >= Len(p) /\ SubSeq(s, 1, Len(p)) = p

\* re.fullmatch(r"Q\d+", s)
IsQid(s) ==
    /\ Len(s) >= 2
    /\ s[1] = "Q"
    /\ \A i \in 2..Len(s) : IsDigit(s[i])

\* What a raised ValueError / RecursionError leaves in place of a value.
ValueError == <<"ValueError">>
RecursionError == <<"RecursionError">>

\* qid.rsplit("/", 1)[-1] for a text that starts with "http".
UrlTail(s) ==
    IF StartsWith(s, <<"h", "t", "t", "p">>) THEN LastSegment(s) ELSE s
QidOrError(t) == IF IsQid(t) THEN t ELSE ValueError

\* normalize_qid: ValueError when the stripped, URL-reduced text is no QID.
normalize_qid(qid) == QidOrError(UrlTail(strip(qid)))

\* --------------------------------------------------------------- dates

\* An ISO date string "YYYY-MM-DD" is the triple <<Y, M, D>> of its fields,
\* None the absent one; a triple that names no calendar day (a BCE year,
\* month 0) is a date string strptime rejects.
IsLeap(y) == (y % 4 = 0 /\ y % 100 # 0) \/ y % 400 = 0
DaysIn(y, m) ==
    IF m = 2 THEN (IF IsLeap(y) THEN 29 ELSE 28)
    ELSE IF m \in {4, 6, 9, 11} THEN 30
    ELSE 31

Strptime(d) ==
    /\ Len(d) = 3
    /\ d[1] \in 1..9999
    /\ d[2] \in 1..12
    /\ d[3] \in 1..DaysIn(d[1], d[2])

\* parse_iso_date: None for an absent or unparsable string.
parse_iso_date(date_str) ==
    IF date_str = None THEN None
    ELSE IF ~Strptime(date_str) THEN None
    ELSE IF date_str[1] <= 0 THEN None
    ELSE date_str

\* date.__gt__ and date.__le__
DateGreater(a, b) ==
    \/ a[1] > b[1]
    \/ a[1] = b[1] /\ a[2] > b[2]
    \/ a[1] = b[1] /\ a[2] = b[2] /\ a[3] > b[3]
\* A strict comparison in the place of date.__le__.
DateLessStrict(a, b) == DateGreater(b, a)
DateLessEq(a, b) == ~DateGreater(a, b)

CUTOFF_DATE == <<1444, 11, 11>>

\* is_alive_on(person, on_date, require_birth=...)
is_alive_on(person, on_date, require_birth) ==
    LET birth == parse_iso_date(person.birth)
        death == parse_iso_date(person.death)
    IN  IF require_birth /\ birth = None THEN FALSE
        ELSE IF birth # None /\ DateGreater(birth, on_date) THEN FALSE
        ELSE IF death # None /\ DateLessEq(death, on_date) THEN FALSE
        ELSE TRUE

\* ------------------------------------------------------------ identifiers

\* NFKD decomposition followed by the removal of combining marks.
StripAccent(c) == IF c = "\\u00e9" THEN "e" ELSE c
\* One character after decomposition and lower(); "_" for what [^a-z0-9] matches.
SlugChar(c) ==
    LET f == LowerChar(StripAccent(c))
    IN  IF IsLower(f) \/ IsDigit(f) THEN f ELSE "_"

\* re.sub(r"[^a-z0-9]+", "_", value) then re.sub(r"_+", "_", value): every
\* run of non-alphanumerics becomes one "_".
RECURSIVE CollapseRuns(_, _)
CollapseRuns(s, acc) ==
    IF s = <<>> THEN acc
    ELSE LET c == SlugChar(Head(s))
         IN  IF c = "_" /\ acc # <<>> /\ acc[Len(acc)] = "_"
             THEN CollapseRuns(Tail(s), acc)
             ELSE CollapseRuns(Tail(s), Append(acc, c))

RECURSIVE StripUnderscores(_)
StripUnderscores(s) ==
    IF s # <<>> /\ Head(s) = "_" THEN StripUnderscores(Tail(s))
    ELSE IF s # <<>> /\ s[Len(s)] = "_"
         THEN StripUnderscores(SubSeq(s, 1, Len(s) - 1))
    ELSE s

\* slugify_to_token
slugify_to_token(value) ==
    LET t == StripUnderscores(CollapseRuns(value, <<>>))
    IN  IF t = <<>> THEN <<"u", "n", "k", "n", "o", "w", "n">> ELSE t

\* make_character_id_from_person
make_character_id_from_person(person, prefix) ==
    LET label == strip(person.label_en)
    IN  IF label # <<>>
        THEN prefix \o slugify_to_token(label)
        ELSE prefix \o lower(person.qid)

\* ----------------------------------------------------------------- oracle

\* The external identifier Q<n> and the entity URI the oracle names it by
\* (the host shortened).
Q(n) == <<"Q", Digits[n + 1]>>
Qids == {Q(n) : n \in 1..NumQ}
EntityUri(qid) == <<"h", "t", "t", "p", ":", "/", "/", "w", "d", "/">> \o qid
\* The URI of an "unknown value" node: its last segment is no QID.
GenidUri == <<"h", "t", "t", "p", ":", "/", "/", "w", "d", "/", "g", "7">>

\* The oracle's answer to the attribute query for one identifier: ok is
\* FALSE when the query raised or returned no binding; an absent OPTIONAL
\* is None.  The time part of ?birth / ?death, which [:10] cuts off, is
\* left out.
Binding(ok, labelEn, birth, death, father, mother) ==
    [ok |-> ok, labelEn |-> labelEn, birth |-> birth, death |-> death,
     father |-> father, mother |-> mother]
NoBinding == Binding(FALSE, None, None, None, None, None)

\* class Person, without label_ja and birth_place_en (read by the renderer's
\* comment lines only).
Person(qid, label_en, birth, death, father_qid, mother_qid) ==
    [qid |-> qid, label_en |-> label_en, birth |-> birth, death |-> death,
     father_qid |-> father_qid, mother_qid |-> mother_qid]

\* The oracle's binding for a normalised identifier; none for one it does
\* not know.
BindingOf(oracle, qid) ==
    IF qid \in DOMAIN oracle.attrs THEN oracle.attrs[qid] ELSE NoBinding
ParentQid(uri) == IF uri # None THEN LastSegment(uri) ELSE None
\* A failed query answered by a Person without its identifier.
PersonOfBindingAnonymous(qid, binding) ==
    IF ~binding.ok
    THEN Person(None, None, None, None, None, None)
    ELSE Person(qid, binding.labelEn, binding.birth, binding.death,
                ParentQid(binding.father), ParentQid(binding.mother))
PersonOfBinding(qid, binding) ==
    IF ~binding.ok
    THEN Person(qid, None, None, None, None, None)
    ELSE Person(qid, binding.labelEn, binding.birth, binding.death,
                ParentQid(binding.father), ParentQid(binding.mother))
FetchNormalized(oracle, qid) == PersonOfBinding(qid, BindingOf(oracle, qid))

\* fetch_person: the Person built from the oracle's binding; all optional
\* fields absent when the query failed.
fetch_person(oracle, qid) == FetchNormalized(oracle, normalize_qid(qid))

\* fetch_children_qids: the last segments of the ?child URIs that are QIDs,
\* in the oracle's order; [] when the query failed.
RECURSIVE KeepQids(_)
KeepQids(uris) ==
    IF uris = <<>> THEN <<>>
    ELSE LET child_qid == LastSegment(Head(uris))
         IN  (IF Head(uris) # None /\ IsQid(child_qid) THEN <<child_qid>>
              ELSE <<>>) \o KeepQids(Tail(uris))

ChildrenAnswer(oracle, qid) ==
    IF qid \in DOMAIN oracle.children THEN oracle.children[qid]
    ELSE [ok |-> FALSE, uris |-> <<>>]
ChildrenOfAnswer(answer) ==
    IF ~answer.ok THEN <<>> ELSE KeepQids(answer.uris)

fetch_children_qids(oracle, qid) ==
    ChildrenOfAnswer(ChildrenAnswer(oracle, normalize_qid(qid)))

\* ------------------------------------------------- the run's memoised maps

\* The closure's dictionaries, threaded through the helper calls as one
\* record: person_cache, qid_to_char_id, used_char_ids, and the log of the
\* attribute queries issued (one entry per fetch_person call).
Memory(cache, q2c, used, log) ==
    [person_cache |-> cache, qid_to_char_id |-> q2c, used_char_ids |-> used,
     query_log |-> log]

\* What a helper call leaves: whether it raised, the memory after it, and
\* the value it returned.
Result(err, mem, ret) == [err |-> err, mem |-> mem, ret |-> ret]

\* person_cache[qid] = fetch_person(qid, sleep_time), one query logged.
CacheMiss(mem, qid, p) ==
    Result(FALSE,
           [mem EXCEPT !.person_cache = (qid :> p) @@ @,
                       !.query_log = Append(@, qid)],
           p)
\* get_person without the person_cache lookup of line 302.
GetNormalizedUncached(oracle, mem, qid) ==
    IF qid = ValueError THEN Result(TRUE, mem, None)
    ELSE CacheMiss(mem, qid, fetch_person(oracle, qid))
GetNormalized(oracle, mem, qid) ==
    IF qid = ValueError THEN Result(TRUE, mem, None)
    ELSE IF qid \notin DOMAIN mem.person_cache
    THEN CacheMiss(mem, qid, fetch_person(oracle, qid))
    ELSE Result(FALSE, mem, mem.person_cache[qid])

\* get_person; it raises when normalize_qid does.
get_person(oracle, mem, qid) == GetNormalized(oracle, mem, normalize_qid(qid))

\* --id-prefix (its default)
id_prefix == <<"w", "d", "_">>

\* used_char_ids.get(candidate) names another identifier.
Taken(used, candidate, qid) ==
    candidate \in DOMAIN used /\ used[candidate] # None /\ used[candidate] # qid
\* The token id_for_qid settles on for a candidate that is taken.
Disambiguate(candidate, qid) == candidate \o <<"_">> \o lower(qid)
\* Lines 318-320: both maps updated, the token returned.
Assign(mem, qid, candidate) ==
    Result(FALSE,
           [mem EXCEPT !.qid_to_char_id = (qid :> candidate) @@ @,
                       !.used_char_ids = (candidate :> qid) @@ @],
           candidate)
\* Lines 314-316 on the candidate make_character_id_from_person gave.
Settle(mem, qid, candidate) ==
    Assign(mem, qid,
           IF Taken(mem.used_char_ids, candidate, qid)
           THEN Disambiguate(candidate, qid)
           ELSE candidate)
Allocate(qid, got) ==
    Settle(got.mem, qid, make_character_id_from_person(got.ret, id_prefix))
\* id_for_qid without the qid_to_char_id lookup of lines 308-309.
IdNormalizedNoMemo(oracle, mem, qid) ==
    IF qid = ValueError THEN Result(TRUE, mem, None)
    ELSE Allocate(qid, get_person(oracle, mem, qid))
IdNormalized(oracle, mem, qid) ==
    IF qid = ValueError THEN Result(TRUE, mem, None)
    ELSE IF qid \in DOMAIN mem.qid_to_char_id
    THEN Result(FALSE, mem, mem.qid_to_char_id[qid])
    ELSE Allocate(qid, get_person(oracle, mem, qid))

\* id_for_qid; it raises when normalize_qid does.
id_for_qid(oracle, mem, qid) == IdNormalized(oracle, mem, normalize_qid(qid))

\* A printed block: the person's identifiers and the father / mother
\* reference fields, None for a field that is not written.
Block(person, self, fa, mo) ==
    Result(mo.err, mo.mem,
           [qid |-> person.qid, char_id |-> self.ret, father |-> fa.ret,
            mother |-> mo.ret])
\* Lines 265-266: the mother field, for a known mother in known_qids.
\* The mother field written for any known mother, as the father field is.
RenderMotherUnfiltered(oracle, person, known_qids, self, fa) ==
    Block(person, self, fa,
          IF ~fa.err /\ person.mother_qid # None
          THEN id_for_qid(oracle, fa.mem, person.mother_qid)
          ELSE Result(fa.err, fa.mem, None))
RenderMother(oracle, person, known_qids, self, fa) ==
    Block(person, self, fa,
          IF ~fa.err /\ person.mother_qid # None
             /\ person.mother_qid \in known_qids
          THEN id_for_qid(oracle, fa.mem, person.mother_qid)
          ELSE Result(fa.err, fa.mem, None))
\* Lines 263-264: the father field, for any known father.
RenderFather(oracle, person, known_qids, self) ==
    RenderMother(oracle, person, known_qids, self,
                 IF ~self.err /\ person.father_qid # None
                 THEN id_for_qid(oracle, self.mem, person.father_qid)
                 ELSE Result(self.err, self.mem, None))

\* render_character_entry with include_parent_refs = True, after
\* char_id = id_for_qid(person.qid): the block, and the memory after the
\* id_for_qid calls in the order the program makes them.  It raises when
\* one of them does.
render_character_entry(oracle, mem, person, known_qids) ==
    RenderFather(oracle, person, known_qids,
                 id_for_qid(oracle, mem, person.qid))

\* ------------------------------------------------------------------ state

VARIABLES
    oracle,             \* what the query service answers: attrs, children
    args,               \* the keyword arguments of the run
    root_qid,
    person_cache, qid_to_char_id, used_char_ids,
    include_root_entry,
    ancestor_qids, descendant_qids, visited_ancestors,
    all_qids, frontier, next_frontier,
    emitted,
    pc,                 \* where the body of the run stands, or the exception
    stack,              \* the frames of the nested functions, innermost first
    round,              \* iterations of `for _ in range(ensure_fathers_depth)`
    todo,               \* what `for qid in frontier` has yet to visit
    queue,              \* what the top-level emission loop has yet to visit
    out,                \* the blocks printed, in order
    query_log,          \* fetch_person calls, in order
    children_log,       \* fetch_children_qids calls, in order
    expand_log,         \* identifiers gather_ancestors marked visited, in order
    probe               \* input and result of a stand-alone is_alive_on call

vars == <<oracle, args, root_qid, person_cache, qid_to_char_id, used_char_ids,
          include_root_entry, ancestor_qids, descendant_qids,
          visited_ancestors, all_qids, frontier, next_frontier, emitted, pc,
          stack, round, todo, queue, out, query_log, children_log, expand_log,
          probe>>

\* The variables the helper calls change, and the rest by group.
memVars == <<person_cache, qid_to_char_id, used_char_ids, query_log>>
inputVars == <<oracle, args, probe>>
gatherVars == <<ancestor_qids, descendant_qids, visited_ancestors, expand_log,
                children_log>>
completeVars == <<all_qids, frontier, next_frontier, round, todo>>
emitVars == <<emitted, queue, out>>

Mem == Memory(person_cache, qid_to_char_id, used_char_ids, query_log)
SetMem(m) ==
    /\ person_cache' = m.person_cache
    /\ qid_to_char_id' = m.qid_to_char_id
    /\ used_char_ids' = m.used_char_ids
    /\ query_log' = m.query_log

EmptyMap == [x \in {} |-> None]

\* One activation of a nested function: `at` is "enter" before its first
\* statement, else the call it waits on.
Frame(fn, qid, depth, at, person, children, i) ==
    [fn |-> fn, qid |-> qid, depth |-> depth, at |-> at, person |-> person,
     children |-> children, i |-> i]
Call(fn, qid, depth) == Frame(fn, qid, depth, "enter", None, <<>>, 0)

Top == Head(stack)
Running(phase, fn) == pc = phase /\ stack # <<>> /\ Top.fn = fn

\* The callee's frame goes on the stack above the waiting caller's; the
\* interpreter raises RecursionError when the stack is full.
PushFrom(caller, callee) ==
    IF Len(stack) >= RecursionLimit
    THEN /\ pc' = "RecursionError"
         /\ stack' = stack
    ELSE /\ pc' = pc
         /\ stack' = <<callee, caller>> \o Tail(stack)
Return ==
    /\ pc' = pc
    /\ stack' = Tail(stack)
Raise(exc) ==
    /\ pc' = exc
    /\ stack' = stack

\* ------------------------------------------------- the body, lines 293-366

\* Lines 322-329 and 366: get_person(root_qid), the root-inclusion decision,
\* the empty sets, and the call gather_ancestors(root_qid, 0).
\* The root-inclusion decision with the birth requirement kept.
ResolveRootBirthRequired(qid, got) ==
    /\ root_qid' = qid
    /\ SetMem(got.mem)
    /\ include_root_entry' =
           (args.include_root_if_not_alive
               \/ is_alive_on(got.ret, CUTOFF_DATE, TRUE))
    /\ pc' = "ancestors"
    /\ stack' = <<Call("gather_ancestors", qid, 0)>>
ResolveRoot(qid, got) ==
    /\ root_qid' = qid
    /\ SetMem(got.mem)
    /\ include_root_entry' =
           (args.include_root_if_not_alive
               \/ is_alive_on(got.ret, CUTOFF_DATE, FALSE))
    /\ pc' = "ancestors"
    /\ stack' = <<Call("gather_ancestors", qid, 0)>>
\* Line 293 gave qid, or raised.
StartWith(qid) ==
    IF qid = ValueError
    THEN /\ pc' = "ValueError"
         /\ UNCHANGED <<root_qid, memVars, include_root_entry, stack>>
    ELSE ResolveRoot(qid, get_person(oracle, Mem, qid))

Start ==
    /\ pc = "start"
    /\ StartWith(normalize_qid(root_qid))
    /\ UNCHANGED <<inputVars, gatherVars, completeVars, emitVars>>

\* ----------------------------------------------------------- gather_ancestors

\* Whether gather_ancestors adds the person reached at `depth`.
\* The inclusion test with the birth requirement relaxed at every depth.
IncludeAncestorBirthRelaxed(person, depth) ==
    IF depth = 0 THEN include_root_entry
    ELSE is_alive_on(person, CUTOFF_DATE, FALSE)
IncludeAncestor(person, depth) ==
    IF depth = 0 THEN include_root_entry
    ELSE is_alive_on(person, CUTOFF_DATE, TRUE)

\* Lines 346-351 from the point `after`: the next recursive call, or the
\* return.
\* gather_ancestors without the depth test of lines 346-347.
AncestorsContinueUnbounded(frame, after) ==
    IF after = "enter" /\ frame.person.father_qid # None
    THEN PushFrom([frame EXCEPT !.at = "father"],
                  Call("gather_ancestors", frame.person.father_qid,
                       frame.depth + 1))
    ELSE IF frame.person.mother_qid # None
    THEN PushFrom([frame EXCEPT !.at = "mother"],
                  Call("gather_ancestors", frame.person.mother_qid,
                       frame.depth + 1))
    ELSE Return
AncestorsContinue(frame, after) ==
    IF frame.depth >= args.max_ancestor_depth THEN Return
    ELSE IF after = "enter" /\ frame.person.father_qid # None
    THEN PushFrom([frame EXCEPT !.at = "father"],
                  Call("gather_ancestors", frame.person.father_qid,
                       frame.depth + 1))
    ELSE IF frame.person.mother_qid # None
    THEN PushFrom([frame EXCEPT !.at = "mother"],
                  Call("gather_ancestors", frame.person.mother_qid,
                       frame.depth + 1))
    ELSE Return

\* Lines 335-351 for an identifier not yet visited.
AncestorsVisit(qid, got) ==
    /\ visited_ancestors' = visited_ancestors \cup {qid}
    /\ expand_log' = Append(expand_log, qid)
    /\ SetMem(got.mem)
    /\ ancestor_qids' = IF IncludeAncestor(got.ret, Top.depth)
                        THEN ancestor_qids \cup {qid}
                        ELSE ancestor_qids
    /\ AncestorsContinue([Top EXCEPT !.qid = qid, !.person = got.ret], "enter")

\* Lines 332-334 gave qid, or raised.
\* gather_ancestors without the Visited Set test of lines 333-334.
AncestorsEnterUnguarded(qid) ==
    IF qid = ValueError
    THEN /\ Raise("ValueError")
         /\ UNCHANGED <<memVars, ancestor_qids, visited_ancestors, expand_log>>
    ELSE AncestorsVisit(qid, get_person(oracle, Mem, qid))
AncestorsEnter(qid) ==
    IF qid = ValueError
    THEN /\ Raise("ValueError")
         /\ UNCHANGED <<memVars, ancestor_qids, visited_ancestors, expand_log>>
    ELSE IF qid \in visited_ancestors
    THEN /\ Return
         /\ UNCHANGED <<memVars, ancestor_qids, visited_ancestors, expand_log>>
    ELSE AncestorsVisit(qid, get_person(oracle, Mem, qid))

\* One activation of gather_ancestors up to its next call or its return.
gather_ancestors ==
    /\ Running("ancestors", "gather_ancestors")
    /\ IF Top.at = "enter"
       THEN AncestorsEnter(normalize_qid(Top.qid))
       ELSE /\ IF Top.at = "father"
               THEN AncestorsContinue(Top, "father")
               ELSE Return
            /\ UNCHANGED <<memVars, ancestor_qids, visited_ancestors,
                           expand_log>>
    /\ UNCHANGED <<inputVars, root_qid, include_root_entry, descendant_qids,
                   children_log, completeVars, emitVars>>

\* Lines 421-427: the identifiers the top-level loop emits, in order.
\* The descendants emitted before the root.
EmissionOrderRootLast ==
    IF include_root_entry
    THEN sorted(descendant_qids) \o <<root_qid>>
    ELSE sorted(ancestor_qids)
EmissionOrder ==
    IF include_root_entry
    THEN <<root_qid>> \o sorted(descendant_qids)
    ELSE sorted(ancestor_qids)

\* Lines 371-375 and 389: the Inclusion Set before completion, the
\* completer's first frontier when ensure_fathers_depth > 0, the empty
\* Emitted Set.
BeginCompletion(union) ==
    /\ all_qids' = union
    /\ emitted' = {}
    /\ round' = 0
    /\ next_frontier' = {}
    /\ IF args.ensure_fathers_depth > 0
       THEN /\ pc' = "complete"
            /\ frontier' = union
            /\ todo' = union
            /\ queue' = queue
       ELSE /\ pc' = "emit"
            /\ UNCHANGED <<frontier, todo>>
            /\ queue' = EmissionOrder

\* Lines 367-369 once gather_ancestors(root_qid, 0) has returned.
\* gather_descendants_alive called without the test of line 368.
AfterAncestorsUnconditional ==
    /\ pc = "ancestors"
    /\ stack = <<>>
    /\ pc' = "descendants"
    /\ stack' = <<Call("gather_descendants_alive", root_qid,
                       args.max_descendant_depth)>>
    /\ UNCHANGED <<completeVars, emitted, queue>>
    /\ UNCHANGED <<inputVars, root_qid, memVars, include_root_entry,
                   gatherVars, out>>
AfterAncestors ==
    /\ pc = "ancestors"
    /\ stack = <<>>
    /\ IF include_root_entry
       THEN /\ pc' = "descendants"
            /\ stack' = <<Call("gather_descendants_alive", root_qid,
                               args.max_descendant_depth)>>
            /\ UNCHANGED <<completeVars, emitted, queue>>
       ELSE /\ BeginCompletion(ancestor_qids \cup descendant_qids)
            /\ stack' = stack
    /\ UNCHANGED <<inputVars, root_qid, memVars, include_root_entry,
                   gatherVars, out>>

\* ---------------------------------------------------- gather_descendants_alive

\* Lines 358-364 for one child; `next` is the caller's frame after it.
\* Lines 358-364 without the liveness test of lines 359-360.
DescendantsChildUnfiltered(next, got) ==
    /\ SetMem(got.mem)
    /\ IF got.ret.qid \in descendant_qids
       THEN /\ pc' = pc
            /\ stack' = <<next>> \o Tail(stack)
            /\ descendant_qids' = descendant_qids
       ELSE /\ descendant_qids' = descendant_qids \cup {got.ret.qid}
            /\ PushFrom(next,
                        Call("gather_descendants_alive", got.ret.qid,
                             next.depth - 1))
DescendantsChild(next, got) ==
    /\ SetMem(got.mem)
    /\ IF \/ ~is_alive_on(got.ret, CUTOFF_DATE, args.descendants_require_birth)
          \/ got.ret.qid \in descendant_qids
       THEN /\ pc' = pc
            /\ stack' = <<next>> \o Tail(stack)
            /\ descendant_qids' = descendant_qids
       ELSE /\ descendant_qids' = descendant_qids \cup {got.ret.qid}
            /\ PushFrom(next,
                        Call("gather_descendants_alive", got.ret.qid,
                             next.depth - 1))

\* One activation of gather_descendants_alive: its entry (the depth test and
\* the children query), or one iteration of its loop.
gather_descendants_alive ==
    /\ Running("descendants", "gather_descendants_alive")
    /\ IF Top.at = "enter"
       THEN IF Top.depth <= 0
            THEN /\ Return
                 /\ UNCHANGED <<memVars, descendant_qids, children_log>>
            ELSE /\ pc' = pc
                 /\ stack' = <<[Top EXCEPT
                                  !.at = "loop",
                                  !.children =
                                      fetch_children_qids(oracle, Top.qid),
                                  !.i = 1]>> \o Tail(stack)
                 /\ children_log' = Append(children_log, Top.qid)
                 /\ UNCHANGED <<memVars, descendant_qids>>
       ELSE IF Top.i > Len(Top.children)
            THEN /\ Return
                 /\ UNCHANGED <<memVars, descendant_qids, children_log>>
            ELSE /\ DescendantsChild([Top EXCEPT !.i = @ + 1],
                                     get_person(oracle, Mem,
                                                Top.children[Top.i]))
                 /\ children_log' = children_log
    /\ UNCHANGED <<inputVars, root_qid, include_root_entry, ancestor_qids,
                   visited_ancestors, expand_log, completeVars, emitVars>>

\* Lines 371-375 once gather_descendants_alive(root_qid, ...) has returned.
AfterDescendants ==
    /\ pc = "descendants"
    /\ stack = <<>>
    /\ BeginCompletion(ancestor_qids \cup descendant_qids)
    /\ UNCHANGED <<inputVars, root_qid, memVars, include_root_entry,
                   gatherVars, stack, out>>

\* --------------------------------------------- lineage completion, 374-387

\* Lines 379-384 for one member of the frontier.
\* Lines 379-384 with the local identifier of the frontier member allocated
\* as the completer visits it.
CompleteOneAllocating(qid, got) ==
    IF got.err
    THEN /\ pc' = "ValueError"
         /\ UNCHANGED <<memVars, all_qids, next_frontier, todo>>
    ELSE /\ pc' = pc
         /\ SetMem(id_for_qid(oracle, got.mem, qid).mem)
         /\ todo' = todo \ {qid}
         /\ IF got.ret.father_qid # None /\ got.ret.father_qid \notin all_qids
            THEN /\ all_qids' = all_qids \cup {got.ret.father_qid}
                 /\ next_frontier' = next_frontier \cup {got.ret.father_qid}
            ELSE UNCHANGED <<all_qids, next_frontier>>
\* Lines 379-384 following the mother link as well as the father link.
CompleteOneBothParents(qid, got) ==
    IF got.err
    THEN /\ pc' = "ValueError"
         /\ UNCHANGED <<memVars, all_qids, next_frontier, todo>>
    ELSE /\ pc' = pc
         /\ SetMem(got.mem)
         /\ todo' = todo \ {qid}
         /\ all_qids' = all_qids
                \cup ({got.ret.father_qid, got.ret.mother_qid} \ {None})
         /\ next_frontier' = next_frontier
                \cup (({got.ret.father_qid, got.ret.mother_qid} \ {None})
                         \ all_qids)
CompleteOne(qid, got) ==
    IF got.err
    THEN /\ pc' = "ValueError"
         /\ UNCHANGED <<memVars, all_qids, next_frontier, todo>>
    ELSE /\ pc' = pc
         /\ SetMem(got.mem)
         /\ todo' = todo \ {qid}
         /\ IF got.ret.father_qid # None /\ got.ret.father_qid \notin all_qids
            THEN /\ all_qids' = all_qids \cup {got.ret.father_qid}
                 /\ next_frontier' = next_frontier \cup {got.ret.father_qid}
            ELSE UNCHANGED <<all_qids, next_frontier>>

\* One iteration of `for qid in frontier`, in whatever order the set yields.
CompleteVisit ==
    /\ pc = "complete"
    /\ todo # {}
    /\ \E qid \in todo : CompleteOne(qid, get_person(oracle, Mem, qid))
    /\ UNCHANGED <<inputVars, root_qid, include_root_entry, gatherVars,
                   frontier, round, emitVars, stack>>

\* The end of one round: break, the next round, or the end of the rounds;
\* emission starts after the last one.
CompleteRound ==
    /\ pc = "complete"
    /\ todo = {}
    /\ IF next_frontier = {}
       THEN /\ pc' = "emit"
            /\ queue' = EmissionOrder
            /\ UNCHANGED <<frontier, next_frontier, round, todo>>
       ELSE /\ frontier' = next_frontier
            /\ round' = round + 1
            /\ IF round + 1 >= args.ensure_fathers_depth
               THEN /\ pc' = "emit"
                    /\ queue' = EmissionOrder
                    /\ UNCHANGED <<next_frontier, todo>>
               ELSE /\ pc' = pc
                    /\ queue' = queue
                    /\ next_frontier' = {}
                    /\ todo' = next_frontier
    /\ UNCHANGED <<inputVars, root_qid, memVars, include_root_entry,
                   gatherVars, all_qids, emitted, out, stack>>

\* ------------------------------------------------------- emission, 389-427

\* The top-level loop: the next emit_parents_first call, or the end of the run.
EmitNext ==
    /\ pc = "emit"
    /\ stack = <<>>
    /\ IF queue = <<>>
       THEN /\ pc' = "done"
            /\ UNCHANGED <<stack, queue>>
       ELSE /\ pc' = pc
            /\ stack' = <<Call("emit_parents_first", Head(queue), 0)>>
            /\ queue' = Tail(queue)
    /\ UNCHANGED <<inputVars, root_qid, memVars, include_root_entry,
                   gatherVars, completeVars, emitted, out>>

\* Whether emit_parents_first recurses into this parent.
\* A recursion into gathered ancestors only, not into completed fathers.
EmitsFirstAncestorsOnly(parent_qid) ==
    parent_qid # None /\ parent_qid \in ancestor_qids
EmitsFirst(parent_qid) == parent_qid # None /\ parent_qid \in all_qids

\* Lines 400-418: the block is printed and the identifier joins the Emitted
\* Set, unless rendering raised.
PrintBlock(frame, block) ==
    /\ SetMem(block.mem)
    /\ IF block.err
       THEN /\ Raise("ValueError")
            /\ UNCHANGED <<emitted, out>>
       ELSE /\ out' = Append(out, block.ret)
            /\ emitted' = emitted \cup {frame.qid}
            /\ Return

\* Lines 396-418 from the point `after`: the next recursive call, or the
\* print and the return.  mem is the memory as get_person left it.
EmitContinue(frame, after, mem) ==
    IF after = "enter" /\ EmitsFirst(frame.person.father_qid)
    THEN /\ PushFrom([frame EXCEPT !.at = "father"],
                     Call("emit_parents_first", frame.person.father_qid, 0))
         /\ SetMem(mem)
         /\ UNCHANGED <<emitted, out>>
    ELSE IF after # "mother" /\ EmitsFirst(frame.person.mother_qid)
    THEN /\ PushFrom([frame EXCEPT !.at = "mother"],
                     Call("emit_parents_first", frame.person.mother_qid, 0))
         /\ SetMem(mem)
         /\ UNCHANGED <<emitted, out>>
    ELSE PrintBlock(frame,
                    render_character_entry(oracle, mem, frame.person, all_qids))

\* Line 395 for an identifier not yet emitted.
EmitResolved(qid, got) ==
    EmitContinue([Top EXCEPT !.qid = qid, !.person = got.ret], "enter", got.mem)

\* Lines 392-394 gave qid, or raised.
\* emit_parents_first without the Emitted Set test of lines 393-394.
EmitEnterUnguarded(qid) ==
    IF qid = ValueError
    THEN /\ Raise("ValueError")
         /\ UNCHANGED <<memVars, emitted, out>>
    ELSE EmitResolved(qid, get_person(oracle, Mem, qid))
EmitEnter(qid) ==
    IF qid = ValueError
    THEN /\ Raise("ValueError")
         /\ UNCHANGED <<memVars, emitted, out>>
    ELSE IF qid \in emitted
    THEN /\ Return
         /\ UNCHANGED <<memVars, emitted, out>>
    ELSE EmitResolved(qid, get_person(oracle, Mem, qid))

\* One activation of emit_parents_first up to its next call or its return.
emit_parents_first ==
    /\ Running("emit", "emit_parents_first")
    /\ IF Top.at = "enter"
       THEN EmitEnter(normalize_qid(Top.qid))
       ELSE EmitContinue(Top, Top.at, Mem)
    /\ UNCHANGED <<inputVars, root_qid, include_root_entry, gatherVars,
                   completeVars, queue>>

Next ==
    \/ Start
    \/ gather_ancestors
    \/ AfterAncestors
    \/ gather_descendants_alive
    \/ AfterDescendants
    \/ CompleteVisit
    \/ CompleteRound
    \/ EmitNext
    \/ emit_parents_first

\* ------------------------------------------------------------ initial states

NoProbe == [person |-> Person(None, None, None, None, None, None),
            on_date |-> CUTOFF_DATE, require_birth |-> FALSE,
            result |-> "none"]

\* The state after the arguments are bound and before line 293.
InitRun(o, a, r) ==
    /\ oracle = o
    /\ args = a
    /\ root_qid = r
    /\ person_cache = EmptyMap
    /\ qid_to_char_id = EmptyMap
    /\ used_char_ids = EmptyMap
    /\ include_root_entry = FALSE
    /\ ancestor_qids = {}
    /\ descendant_qids = {}
    /\ visited_ancestors = {}
    /\ all_qids = {}
    /\ frontier = {}
    /\ next_frontier = {}
    /\ emitted = {}
    /\ pc = "start"
    /\ stack = <<>>
    /\ round = 0
    /\ todo = {}
    /\ queue = <<>>
    /\ out = <<>>
    /\ query_log = <<>>
    /\ children_log = <<>>
    /\ expand_log = <<>>
    /\ probe = NoProbe

\* main(): depths are clamped at 0.
Args(depth, ddepth, fdepth, force_root, need_birth) ==
    [max_ancestor_depth |-> depth, max_descendant_depth |-> ddepth,
     ensure_fathers_depth |-> fdepth, include_root_if_not_alive |-> force_root,
     descendants_require_birth |-> need_birth]

\* Birth and death as in the spec's end-to-end scenario: alive at the cutoff,
\* dead before it, and no dates known.
AliveLife == <<<<1400, 1, 1>>, None>>
Lives == {AliveLife, <<<<1400, 1, 1>>, <<1440, 1, 1>>>>, <<None, None>>}

\* The genealogies explored.  Q1 is the root.  The father of Q<n> is absent,
\* Q<n+1>, or: for the root an unknown-value node, for the others the root
\* (a parent cycle, or a child of the root naming its father).  The root's
\* mother is absent or Q3, so that Q3 can be reached along two paths.
\* Identifiers past Q3 are living people without known parents.
FatherChoices(n) ==
    {None} \cup (IF n < NumQ THEN {EntityUri(Q(n + 1))} ELSE {})
           \cup (IF n = 1 THEN {GenidUri} ELSE {EntityUri(Q(1))})
MotherChoices(n) ==
    {None} \cup (IF n = 1 /\ NumQ >= 3 THEN {EntityUri(Q(3))} ELSE {})
LabelledBindings(n, labels, lives) ==
    IF n > 3 THEN {Binding(TRUE, None, AliveLife[1], AliveLife[2], None, None)}
    ELSE {Binding(TRUE, l, life[1], life[2], f, m) :
             l \in labels, life \in lives, f \in FatherChoices(n),
             m \in MotherChoices(n)}
\* Unlabelled people of every kind of life; the attribute query for Q3 may
\* also fail.
BindingsOf(n) ==
    LabelledBindings(n, {None}, Lives) \cup (IF n = 3 THEN {NoBinding} ELSE {})

\* English labels that fold to the same token ("Foo", "foo"), to the token a
\* disambiguated "Foo" of Q2 gets ("Foo Q2"), and to the token an unlabelled
\* Q2 gets ("Q2").
Labels == {None, <<"F", "o", "o">>, <<"f", "o", "o">>,
           <<"F", "o", "o", " ", "Q", "2">>, <<"Q", "2">>}
\* Living people with any of the labels.
NamedBindingsOf(n) == LabelledBindings(n, Labels, {AliveLife})

\* The children query answers for the root only: it fails, or names Q3, or
\* Q2 and Q3 (ORDER BY ?child).
ChildUris(s) == [ok |-> TRUE, uris |-> [i \in DOMAIN s |-> EntityUri(s[i])]]
ChildAnswersOf(n) ==
    IF n = 1 /\ NumQ >= 3
    THEN {[ok |-> FALSE, uris |-> <<>>], ChildUris(<<Q(3)>>),
          ChildUris(<<Q(2), Q(3)>>)}
    ELSE {ChildUris(<<>>)}

\* The answers for Q<n>: of labelled living people, or of unlabelled ones.
AnswersOf(named, n) == IF named THEN NamedBindingsOf(n) ELSE BindingsOf(n)
\* One answer for each of Q1 .. Q<n>.
RECURSIVE AnswerTuples(_, _)
AnswerTuples(named, n) ==
    IF n = 0 THEN {<<>>}
    ELSE {Append(t, b) : t \in AnswerTuples(named, n - 1),
                         b \in AnswersOf(named, n)}
RECURSIVE ChildAnswerTuples(_)
ChildAnswerTuples(n) ==
    IF n = 0 THEN {<<>>}
    ELSE {Append(t, b) : t \in ChildAnswerTuples(n - 1),
                         b \in ChildAnswersOf(n)}
Oracles(named) ==
    {[attrs |-> [q \in Qids |-> a[IndexOf(Digits, q[2]) - 1]],
      children |-> [q \in Qids |-> c[IndexOf(Digits, q[2]) - 1]]] :
        a \in AnswerTuples(named, NumQ), c \in ChildAnswerTuples(NumQ)}

\* Unlabelled people, every ancestor depth and completion depth, the root
\* forced or not; descendants to the full depth, birth required of them.
Init ==
    \E o \in Oracles(FALSE), depth \in 0..MaxAncestorDepth,
       fdepth \in 0..MaxEnsureFathers, force_root \in BOOLEAN :
        InitRun(o, Args(depth, MaxDescendantDepth, fdepth, force_root, TRUE),
                Q(1))

Spec == Init /\ [][Next]_vars

\* Labelled living people, at the full depths.
InitLabels ==
    \E o \in Oracles(TRUE) :
        InitRun(o, Args(MaxAncestorDepth, MaxDescendantDepth, MaxEnsureFathers,
                        FALSE, TRUE),
                Q(1))

SpecLabels == InitLabels /\ [][Next]_vars

\* Families with grandchildren: the root's children are Q2, or Q2 and Q3, or
\* the query fails; Q2's child is Q3 or the root, Q3's is Q2 (or the next
\* identifier, when there is one).  Q2's father may be Q3.
DescendantAnswersOf(n) ==
    IF n > 3 THEN {Binding(TRUE, None, AliveLife[1], AliveLife[2], None, None)}
    ELSE {Binding(TRUE, None, life[1], life[2], f, None) :
             life \in Lives,
             f \in {None} \cup (IF n = 2 THEN {EntityUri(Q(3))} ELSE {})}
DescendantChildAnswersOf(n) ==
    IF n = 1
    THEN {[ok |-> FALSE, uris |-> <<>>], ChildUris(<<Q(2)>>),
          ChildUris(<<Q(2), Q(3)>>)}
    ELSE IF n = 2 THEN {ChildUris(<<>>), ChildUris(<<Q(3)>>), ChildUris(<<Q(1)>>)}
    ELSE IF n = 3
    THEN {ChildUris(<<>>), ChildUris(<<Q(2)>>)}
            \cup (IF NumQ > 3 THEN {ChildUris(<<Q(4)>>)} ELSE {})
    ELSE {ChildUris(<<>>)}
RECURSIVE DescendantAnswerTuples(_)
DescendantAnswerTuples(n) ==
    IF n = 0 THEN {<<>>}
    ELSE {Append(t, b) : t \in DescendantAnswerTuples(n - 1),
                         b \in DescendantAnswersOf(n)}
RECURSIVE DescendantChildTuples(_)
DescendantChildTuples(n) ==
    IF n = 0 THEN {<<>>}
    ELSE {Append(t, b) : t \in DescendantChildTuples(n - 1),
                         b \in DescendantChildAnswersOf(n)}
DescendantOracles ==
    {[attrs |-> [q \in Qids |-> a[IndexOf(Digits, q[2]) - 1]],
      children |-> [q \in Qids |-> c[IndexOf(Digits, q[2]) - 1]]] :
        a \in DescendantAnswerTuples(NumQ), c \in DescendantChildTuples(NumQ)}

\* Every descendant depth up to one past MaxDescendantDepth, birth required
\* of the descendants or not, the root forced or not.
InitDescendants ==
    \E o \in DescendantOracles, ddepth \in 0..(MaxDescendantDepth + 1),
       force_root \in BOOLEAN, need_birth \in BOOLEAN :
        InitRun(o, Args(MaxAncestorDepth, ddepth, MaxEnsureFathers, force_root,
                        need_birth),
                Q(1))

SpecDescendants == InitDescendants /\ [][Next]_vars

\* Unlabelled people, the ancestors not gathered or gathered to the full
\* depth, every completion depth up to one past MaxEnsureFathers.
InitFathers ==
    \E o \in Oracles(FALSE), depth \in {0, MaxAncestorDepth},
       fdepth \in 0..(MaxEnsureFathers + 1), force_root \in BOOLEAN :
        InitRun(o, Args(depth, MaxDescendantDepth, fdepth, force_root, TRUE),
                Q(1))

SpecFathers == InitFathers /\ [][Next]_vars

\* The same call made a second time, with the same arguments and the same
\* oracle: what the first run ended with is kept for comparison.
RunAgain ==
    /\ pc \in {"done", "ValueError", "RecursionError"}
    /\ probe = NoProbe
    /\ probe' = [first |-> [pc |-> pc, out |-> out,
                            qid_to_char_id |-> qid_to_char_id]]
    /\ person_cache' = EmptyMap
    /\ qid_to_char_id' = EmptyMap
    /\ used_char_ids' = EmptyMap
    /\ include_root_entry' = FALSE
    /\ ancestor_qids' = {}
    /\ descendant_qids' = {}
    /\ visited_ancestors' = {}
    /\ all_qids' = {}
    /\ frontier' = {}
    /\ next_frontier' = {}
    /\ emitted' = {}
    /\ pc' = "start"
    /\ stack' = <<>>
    /\ round' = 0
    /\ todo' = {}
    /\ queue' = <<>>
    /\ out' = <<>>
    /\ query_log' = <<>>
    /\ children_log' = <<>>
    /\ expand_log' = <<>>
    /\ UNCHANGED <<oracle, args, root_qid>>

\* Labelled living people, the ancestors not gathered, two rounds of
\* completion or more; the run is made twice.
InitTwice ==
    \E o \in Oracles(TRUE) :
        InitRun(o, Args(0, MaxDescendantDepth, MaxEnsureFathers + 1, FALSE,
                        TRUE),
                Q(1))

NextTwice ==
    \/ Next
    \/ RunAgain

SpecTwice == InitTwice /\ [][NextTwice]_vars

\* Pedigrees that collapse: one person more than NumQ, all with a known
\* birth, alive at the cutoff or dead before it.  The father of Q<n> is absent
\* or Q<n+1>, the mother absent or Q<n+2>, so that Q<n+2> is both a parent and
\* a grandparent of Q<n>.  No children are named.
PedigreeAnswersOf(n) ==
    {Binding(TRUE, None, <<1400, 1, 1>>, death, f, m) :
        death \in {None, <<1440, 1, 1>>},
        f \in {None} \cup (IF n <= NumQ THEN {EntityUri(Q(n + 1))} ELSE {}),
        m \in {None} \cup (IF n < NumQ THEN {EntityUri(Q(n + 2))} ELSE {})}
RECURSIVE PedigreeAnswerTuples(_)
PedigreeAnswerTuples(n) ==
    IF n = 0 THEN {<<>>}
    ELSE {Append(t, b) : t \in PedigreeAnswerTuples(n - 1),
                         b \in PedigreeAnswersOf(n)}
PedigreeOracles ==
    {[attrs |-> [q \in {Q(n) : n \in 1..(NumQ + 1)} |->
                    a[IndexOf(Digits, q[2]) - 1]],
      children |-> [q \in {Q(n) : n \in 1..(NumQ + 1)} |-> ChildUris(<<>>)]] :
        a \in PedigreeAnswerTuples(NumQ + 1)}

\* Every ancestor depth, the fathers not completed or completed to the full
\* depth.
InitPedigree ==
    \E o \in PedigreeOracles, depth \in 0..MaxAncestorDepth,
       fdepth \in {0, MaxEnsureFathers} :
        InitRun(o, Args(depth, MaxDescendantDepth, fdepth, FALSE, TRUE), Q(1))

SpecPedigree == InitPedigree /\ [][Next]_vars

\* ------------------------------------------- is_alive_on called on its own

\* Dates around the cutoff, and two strings strptime rejects.
ProbeDates == {<<1400, 1, 1>>, <<1444, 11, 10>>, <<1444, 11, 11>>,
               <<1444, 11, 12>>, <<1445, 1, 1>>}
BadDates == {<<-500, 1, 1>>, <<1444, 2, 30>>}
ProbeFields == {None} \cup ProbeDates \cup BadDates

InitAlive ==
    /\ \E birth \in ProbeFields, death \in ProbeFields, on_date \in ProbeDates,
          require_birth \in BOOLEAN :
            probe = [person |-> Person(Q(1), None, birth, death, None, None),
                     on_date |-> on_date, require_birth |-> require_birth,
                     result |-> "none"]
    /\ oracle = [attrs |-> EmptyMap, children |-> EmptyMap]
    /\ args = Args(0, 0, 0, FALSE, TRUE)
    /\ root_qid = Q(1)
    /\ person_cache = EmptyMap
    /\ qid_to_char_id = EmptyMap
    /\ used_char_ids = EmptyMap
    /\ include_root_entry = FALSE
    /\ ancestor_qids = {}
    /\ descendant_qids = {}
    /\ visited_ancestors = {}
    /\ all_qids = {}
    /\ frontier = {}
    /\ next_frontier = {}
    /\ emitted = {}
    /\ pc = "probe"
    /\ stack = <<>>
    /\ round = 0
    /\ todo = {}
    /\ queue = <<>>
    /\ out = <<>>
    /\ query_log = <<>>
    /\ children_log = <<>>
    /\ expand_log = <<>>

CallIsAliveOn ==
    /\ pc = "probe"
    /\ pc' = "probed"
    /\ probe' = [probe EXCEPT
                   !.result = is_alive_on(probe.person, probe.on_date,
                                          probe.require_birth)]
    /\ UNCHANGED <<oracle, args, root_qid, memVars, include_root_entry,
                   gatherVars, completeVars, emitVars, stack>>

SpecAlive == InitAlive /\ [][CallIsAliveOn]_vars

\* ------------------------------------ load_localisations (visualize_dynasty)

MaxFiles == 2

\* A localisation file as load_localisations reads it: whether process_paths
\* classes it as English, and the (key, text) pairs parse_file yields from it,
\* in order.
LocFile(english, entries) == [english |-> english, entries |-> entries]

\* dict.setdefault(k, v)
SetDefault(map, k, v) == IF k \in DOMAIN map THEN map ELSE (k :> v) @@ map
\* `if allow_override or k not in primary: primary.setdefault(k, v)`
StoreEntry(map, entry, allow_override) ==
    IF allow_override \/ entry[1] \notin DOMAIN map
    THEN SetDefault(map, entry[1], entry[2])
    ELSE map
\* The loop over parse_file(p) into one of the two dicts.
RECURSIVE StoreEntries(_, _, _)
StoreEntries(map, entries, allow_override) ==
    IF entries = <<>> THEN map
    ELSE StoreEntries(StoreEntry(map, Head(entries), allow_override),
                      Tail(entries), allow_override)
\* The body of process_paths for one file: dicts is [loc, eng_loc].
ProcessFile(dicts, file, allow_override) ==
    IF file.english
    THEN [dicts EXCEPT
            !.eng_loc = StoreEntries(@, file.entries, allow_override)]
    ELSE [dicts EXCEPT !.loc = StoreEntries(@, file.entries, allow_override)]
RECURSIVE process_paths(_, _, _)
process_paths(paths, dicts, allow_override) ==
    IF paths = <<>> THEN dicts
    ELSE process_paths(Tail(paths),
                       ProcessFile(dicts, Head(paths), allow_override),
                       allow_override)
\* loc.update(eng_loc); return loc
UpdateWithEnglish(dicts) == dicts.eng_loc @@ dicts.loc
\* load_localisations on the files found under the two directories.
load_localisations(mod_paths, base_paths) ==
    UpdateWithEnglish(
        process_paths(mod_paths,
                      process_paths(base_paths,
                                    [loc |-> EmptyMap, eng_loc |-> EmptyMap],
                                    FALSE),
                      FALSE))

\* The files explored: up to MaxFiles in each directory, each English or
\* not, each defining none, one or both of two keys; the text of an entry
\* names the directory and the file it stands in.
LocKeys == {<<>>, <<"key_a">>, <<"key_b">>, <<"key_a", "key_b">>}
LocShapes == [english : BOOLEAN, keys : LocKeys]
LocShapeLists == UNION {[1..n -> LocShapes] : n \in 0..MaxFiles}
LocFiles(dir, shapes) ==
    [i \in DOMAIN shapes |->
        LocFile(shapes[i].english,
                [j \in DOMAIN shapes[i].keys |->
                    <<shapes[i].keys[j], <<dir, i>>>>])]

InitLocalisations ==
    /\ \E base \in LocShapeLists, mod \in LocShapeLists :
          probe = [mod_paths |-> LocFiles("mod", mod),
                   base_paths |-> LocFiles("base", base),
                   result |-> EmptyMap]
    /\ oracle = [attrs |-> EmptyMap, children |-> EmptyMap]
    /\ args = Args(0, 0, 0, FALSE, TRUE)
    /\ root_qid = Q(1)
    /\ person_cache = EmptyMap
    /\ qid_to_char_id = EmptyMap
    /\ used_char_ids = EmptyMap
    /\ include_root_entry = FALSE
    /\ ancestor_qids = {}
    /\ descendant_qids = {}
    /\ visited_ancestors = {}
    /\ all_qids = {}
    /\ frontier = {}
    /\ next_frontier = {}
    /\ emitted = {}
    /\ pc = "load"
    /\ stack = <<>>
    /\ round = 0
    /\ todo = {}
    /\ queue = <<>>
    /\ out = <<>>
    /\ query_log = <<>>
    /\ children_log = <<>>
    /\ expand_log = <<>>

CallLoadLocalisations ==
    /\ pc = "load"
    /\ pc' = "loaded"
    /\ probe' = [probe EXCEPT
                   !.result = load_localisations(probe.mod_paths,
                                                 probe.base_paths)]
    /\ UNCHANGED <<oracle, args, root_qid, memVars, include_root_entry,
                   gatherVars, completeVars, emitVars, stack>>

SpecLocalisations == InitLocalisations /\ [][CallLoadLocalisations]_vars

\* ------------------------------------------------------------- properties

\* What the printed blocks say, and about whom.
Printed == {out[i].qid : i \in DOMAIN out}
PrintedBefore(qid, i) == \E j \in 1..(i - 1) : out[j].qid = qid
DefinedBefore(char_id, i) == \E j \in 1..(i - 1) : out[j].char_id = char_id
PersonOf(qid) == person_cache[qid]

\* C1: every printed person's father, and mother, that is a member of the
\* final Inclusion Set was printed strictly earlier than the person.
C1_ParentsPrintedFirst ==
    \A i \in DOMAIN out :
        /\ PersonOf(out[i].qid).father_qid \in all_qids
              => PrintedBefore(PersonOf(out[i].qid).father_qid, i)
        /\ PersonOf(out[i].qid).mother_qid \in all_qids
              => PrintedBefore(PersonOf(out[i].qid).mother_qid, i)

\* A finished run printed someone after both an in-set father and a
\* different in-set mother.
C1_Witness ==
    /\ pc = "done"
    /\ \E i \in DOMAIN out :
          /\ PersonOf(out[i].qid).father_qid \in all_qids
          /\ PersonOf(out[i].qid).mother_qid \in all_qids
          /\ PersonOf(out[i].qid).father_qid # PersonOf(out[i].qid).mother_qid

\* C2: every father / mother field written names the local identifier of a
\* block printed earlier in the run.
C2_NoForwardReference ==
    \A i \in DOMAIN out :
        /\ out[i].father # None => DefinedBefore(out[i].father, i)
        /\ out[i].mother # None => DefinedBefore(out[i].mother, i)

\* C3: when the run completes, every member of the final Inclusion Set has
\* been printed.
C3_InclusionSetPrinted ==
    pc = "done" => \A qid \in all_qids : qid \in Printed

\* C4: the Emitted Set only grows and is exactly the set of printed
\* identifiers, no identifier is printed twice, and a call of
\* emit_parents_first on an emitted identifier prints nothing.
C4_PrintedOnce ==
    [][/\ emitted \subseteq emitted'
       /\ emitted' = {out'[i].qid : i \in DOMAIN out'}
       /\ \A i, j \in DOMAIN out' : out'[i].qid = out'[j].qid => i = j
       /\ (Running("emit", "emit_parents_first") /\ Top.at = "enter"
              /\ normalize_qid(Top.qid) \in emitted) => out' = out]_vars

\* emit_parents_first is entered, at the top level, on an identifier that
\* was already printed as the parent of another.
C4_Witness ==
    /\ Running("emit", "emit_parents_first")
    /\ Top.at = "enter"
    /\ Len(stack) = 1
    /\ Top.qid \in emitted
    /\ \E i \in DOMAIN out :
          Top.qid \in {PersonOf(out[i].qid).father_qid,
                       PersonOf(out[i].qid).mother_qid}

\* C5: no two distinct external identifiers are mapped to the same local
\* identifier, whatever the order of the id_for_qid calls, also when a
\* suffixed token coincides with the token of a third identifier.
C5_AllocatorInjective ==
    \A a, b \in DOMAIN qid_to_char_id :
        a # b => qid_to_char_id[a] # qid_to_char_id[b]

\* What id_for_qid returned for the blocks printed: each block's own
\* identifier and its parent fields are the entries of the map.
ReturnsRecorded(blocks, map, cache) ==
    \A i \in DOMAIN blocks :
        /\ blocks[i].char_id = map[blocks[i].qid]
        /\ blocks[i].father # None
              => blocks[i].father = map[cache[blocks[i].qid].father_qid]
        /\ blocks[i].mother # None
              => blocks[i].mother = map[cache[blocks[i].qid].mother_qid]

\* C6: an entry of qid_to_char_id is never changed or removed, and every
\* id_for_qid call for an identifier, the first and the later ones, returns
\* that entry.
C6_MappingImmutable ==
    [][/\ \A qid \in DOMAIN qid_to_char_id :
             /\ qid \in DOMAIN qid_to_char_id'
             /\ qid_to_char_id'[qid] = qid_to_char_id[qid]
       /\ ReturnsRecorded(out', qid_to_char_id', person_cache')]_vars

\* A block names as its mother a person printed two or more blocks earlier:
\* id_for_qid is called again for her after another allocation.
C6_Witness ==
    \E i, j \in DOMAIN out :
        /\ j > i + 1
        /\ out[j].mother # None
        /\ PersonOf(out[j].qid).mother_qid = out[i].qid
        /\ out[j].mother = out[i].char_id

\* The reference rule of the Liveness Predicate, on day numbers.
DayNumber(d) == d[1] * 10000 + d[2] * 100 + d[3]
Present(d) == d # None /\ Strptime(d)
AliveRule(birth, death, ref, require_birth) ==
    /\ require_birth => Present(birth)
    /\ Present(birth) => DayNumber(birth) <= DayNumber(ref)
    /\ Present(death) => DayNumber(ref) < DayNumber(death)

\* C7: is_alive_on equals the reference rule for every combination of absent
\* and present birth and death and both flag values; with birth B and death D
\* known it is true exactly for B <= ref < D.
C7_AliveRule ==
    pc = "probed" =>
        /\ probe.result = AliveRule(probe.person.birth, probe.person.death,
                                    probe.on_date, probe.require_birth)
        /\ Present(probe.person.birth) /\ Present(probe.person.death)
              => (probe.result <=>
                     /\ DayNumber(probe.person.birth) <= DayNumber(probe.on_date)
                     /\ DayNumber(probe.on_date) < DayNumber(probe.person.death))

\* Death on the day of birth, asked about on that day: not alive.
C7_Witness ==
    /\ pc = "probed"
    /\ Present(probe.person.birth)
    /\ probe.person.death = probe.person.birth
    /\ probe.on_date = probe.person.birth
    /\ probe.result = FALSE

\* The oracle's dates for the root.
RootBorn1400(death) ==
    /\ oracle.attrs[root_qid].ok
    /\ oracle.attrs[root_qid].birth = <<1400, 1, 1>>
    /\ oracle.attrs[root_qid].death = death

\* C8: once gather_ancestors has visited the root, the root is in the
\* ancestor set iff include_root_if_not_alive is set or the root is alive at
\* the cutoff with the birth requirement relaxed; a root born 1400-01-01 with
\* no death and the flag off is included, with death 1440-01-01 it is not.
C8_RootInclusion ==
    root_qid \in visited_ancestors =>
        /\ root_qid \in ancestor_qids
              <=> \/ args.include_root_if_not_alive
                  \/ is_alive_on(PersonOf(root_qid), CUTOFF_DATE, FALSE)
        /\ ~args.include_root_if_not_alive /\ RootBorn1400(None)
              => root_qid \in ancestor_qids
        /\ ~args.include_root_if_not_alive /\ RootBorn1400(<<1440, 1, 1>>)
              => root_qid \notin ancestor_qids

\* A finished run whose root, without any known date and with the flag off,
\* is in the ancestor set.
C8_Witness ==
    /\ pc = "done"
    /\ ~args.include_root_if_not_alive
    /\ oracle.attrs[root_qid].ok
    /\ oracle.attrs[root_qid].birth = None
    /\ root_qid \in ancestor_qids

\* C9: every member of the ancestor set other than the root has a birth date
\* that parses and is alive at the cutoff with birth required.
C9_AncestorsAlive ==
    \A qid \in ancestor_qids \ {root_qid} :
        /\ parse_iso_date(PersonOf(qid).birth) # None
        /\ AliveRule(PersonOf(qid).birth, PersonOf(qid).death, CUTOFF_DATE, TRUE)

\* A finished run that gathered an ancestor and visited another, without a
\* birth date, that it left out.
C9_Witness ==
    /\ pc = "done"
    /\ ancestor_qids \ {root_qid} # {}
    /\ \E qid \in visited_ancestors \ {root_qid} :
          /\ PersonOf(qid).birth = None
          /\ PersonOf(qid).death = None
          /\ qid \notin ancestor_qids

\* C10: gather_ancestors expands no identifier twice.
C10_ExpandedOnce ==
    \A i, j \in DOMAIN expand_log : expand_log[i] = expand_log[j] => i = j

\* gather_ancestors is entered on an identifier it has already expanded,
\* reached along a second path or around a cycle.
C10_Witness ==
    /\ Running("ancestors", "gather_ancestors")
    /\ Top.at = "enter"
    /\ Top.qid \in visited_ancestors

\* The parents the oracle names for an identifier, and the identifiers within
\* k father / mother links of the root.
ParentsOf(qid) ==
    IF ~oracle.attrs[qid].ok THEN {}
    ELSE {ParentQid(oracle.attrs[qid].father),
          ParentQid(oracle.attrs[qid].mother)} \ {None}
RECURSIVE WithinLinks(_)
WithinLinks(k) ==
    IF k = 0 THEN {root_qid}
    ELSE LET nearer == WithinLinks(k - 1)
         IN  nearer \cup UNION {ParentsOf(qid) : qid \in nearer \cap Qids}

\* C11: no activation of gather_ancestors has a depth above
\* max_ancestor_depth, every visited identifier is within max_ancestor_depth
\* parent links of the root, and with max_ancestor_depth = 0 only the root is
\* visited.
C11_DepthBound ==
    /\ \A i \in DOMAIN stack :
          stack[i].fn = "gather_ancestors"
              => stack[i].depth <= args.max_ancestor_depth
    /\ visited_ancestors \subseteq WithinLinks(args.max_ancestor_depth)
    /\ args.max_ancestor_depth = 0 => visited_ancestors \subseteq {root_qid}

\* A finished run that visited someone at the depth bound and left that
\* person's father unvisited.
C11_Witness ==
    /\ pc = "done"
    /\ args.max_ancestor_depth > 0
    /\ \E qid \in visited_ancestors :
          /\ PersonOf(qid).father_qid \in Qids
          /\ PersonOf(qid).father_qid \notin visited_ancestors

\* C12: once the root-inclusion decision is made and the root is excluded,
\* gather_descendants_alive is never called, the descendant set stays empty,
\* no children query is issued, and the Inclusion Set that line 371-372 builds
\* is the ancestor set.
C12_NoDescendantsOfExcludedRoot ==
    [][(pc' # "start" /\ ~include_root_entry')
          => /\ pc' # "descendants"
             /\ descendant_qids' = {}
             /\ children_log' = <<>>
             /\ (pc = "ancestors" /\ pc' \in {"complete", "emit"})
                   => all_qids' = ancestor_qids']_vars

\* A finished run whose excluded root has children and a gathered ancestor.
C12_Witness ==
    /\ pc = "done"
    /\ ~include_root_entry
    /\ oracle.children[root_qid].ok
    /\ oracle.children[root_qid].uris # <<>>
    /\ ancestor_qids # {}

\* The children the oracle names for an identifier, and the identifiers
\* reached from the root by at most k child links through members of S.
ChildrenOf(qid) == Range(fetch_children_qids(oracle, qid))
RECURSIVE ChainedWithin(_, _)
ChainedWithin(S, k) ==
    IF k = 0 THEN {}
    ELSE LET nearer == ChainedWithin(S, k - 1)
         IN  nearer \cup (S \cap UNION {ChildrenOf(qid) :
                                          qid \in nearer \cup {root_qid}})

\* C13: every member of the descendant set is alive at the cutoff under
\* descendants_require_birth, and is reached from the root by at most
\* max_descendant_depth child links through members of the set; the children
\* query is issued for the root and for members of the set only.
C13_DescendantsAliveAndChained ==
    /\ \A qid \in descendant_qids :
          AliveRule(PersonOf(qid).birth, PersonOf(qid).death, CUTOFF_DATE,
                    args.descendants_require_birth)
    /\ descendant_qids
          \subseteq ChainedWithin(descendant_qids, args.max_descendant_depth)
    /\ \A i \in DOMAIN children_log :
          children_log[i] = root_qid \/ children_log[i] \in descendant_qids

\* A finished run, two generations deep: a child of the root that is not
\* alive and has a child of its own was not asked for children, and another
\* child of the root was.
C13_Witness ==
    /\ pc = "done"
    /\ args.max_descendant_depth >= 2
    /\ \E qid \in ChildrenOf(root_qid) \ descendant_qids :
          /\ ChildrenOf(qid) # {}
          /\ \A i \in DOMAIN children_log : children_log[i] # qid
    /\ \E i \in DOMAIN children_log : children_log[i] \in descendant_qids

\* The father the oracle names for an identifier, and S with the fathers
\* reached from it by at most n consecutive father links.
FatherOf(qid) ==
    IF qid \in Qids /\ oracle.attrs[qid].ok
    THEN ParentQid(oracle.attrs[qid].father)
    ELSE None
RECURSIVE WithFathers(_, _)
WithFathers(S, n) ==
    IF n = 0 THEN S
    ELSE LET nearer == WithFathers(S, n - 1)
         IN  nearer \cup ({FatherOf(qid) : qid \in nearer} \ {None})

\* C14: once the Lineage Completer has run with ensure_fathers_depth = N, the
\* Inclusion Set is the ancestors and descendants together with everyone
\* reached from them by 1 to N consecutive father links, alive or not, and
\* nobody else; with N = 0 it is the ancestors and descendants.
C14_FathersCompleted ==
    pc \in {"emit", "done"} =>
        /\ all_qids = WithFathers(ancestor_qids \cup descendant_qids,
                                  args.ensure_fathers_depth)
        /\ args.ensure_fathers_depth = 0
              => all_qids = ancestor_qids \cup descendant_qids

\* A finished run with two rounds of completion: a father who is neither an
\* ancestor nor a descendant and is not alive at the cutoff was added, and
\* then his father.
C14_Witness ==
    /\ pc = "done"
    /\ args.ensure_fathers_depth = 2
    /\ \E qid \in all_qids \ (ancestor_qids \cup descendant_qids) :
          /\ ~AliveRule(PersonOf(qid).birth, PersonOf(qid).death, CUTOFF_DATE,
                        FALSE)
          /\ FatherOf(qid) \in all_qids \ (ancestor_qids \cup descendant_qids)
          /\ FatherOf(qid) # qid

\* C15: the attribute query is issued at most once per identifier, for the
\* identifiers in person_cache and no others, and an entry of person_cache is
\* never replaced or removed.
C15_QueriedOnce ==
    [][/\ \A i, j \in DOMAIN query_log' :
             query_log'[i] = query_log'[j] => i = j
       /\ DOMAIN person_cache' = Range(query_log')
       /\ \A qid \in DOMAIN person_cache :
             /\ qid \in DOMAIN person_cache'
             /\ person_cache'[qid] = person_cache[qid]]_vars

\* emit_parents_first is about to resolve, for printing, a person that the
\* collectors resolved before.
C15_Witness ==
    /\ Running("emit", "emit_parents_first")
    /\ Top.at = "enter"
    /\ Top.qid \in DOMAIN person_cache
    /\ Top.qid \notin emitted
    /\ Len(query_log) > 1

\* C16: a run whose root identifier is well formed never ends with the
\* invalid-identifier error, whatever the oracle answers.
C16_OnlyRootInvalid ==
    pc = "ValueError" => normalize_qid(root_qid) = ValueError

Exceptions == {"ValueError", "RecursionError"}

\* C17: a failed attribute query leaves in person_cache a Person with the
\* identifier asked for and every other field absent, a failed children query
\* gives the empty list, and the step that issued the failed query raises
\* nothing.
C17_FailuresAbsorbed ==
    [][/\ \A qid \in DOMAIN person_cache' :
             ~oracle.attrs[qid].ok
                 => person_cache'[qid]
                       = Person(qid, None, None, None, None, None)
       /\ \A i \in (Len(query_log) + 1)..Len(query_log') :
             ~oracle.attrs[query_log'[i]].ok => pc' \notin Exceptions
       /\ \A i \in (Len(children_log) + 1)..Len(children_log') :
             ~oracle.children[children_log'[i]].ok
                 => /\ pc' \notin Exceptions
                    /\ Head(stack').children = <<>>]_vars

\* A run that finished and printed, after an attribute query and the
\* children query of the root had failed.
C17_Witness ==
    /\ pc = "done"
    /\ out # <<>>
    /\ \E i \in DOMAIN query_log : ~oracle.attrs[query_log[i]].ok
    /\ \E i \in DOMAIN children_log : ~oracle.children[children_log[i]].ok

\* C18: a printed block has a mother field iff the person's mother is known
\* and a member of the Inclusion Set, and a father field iff the person's
\* father is known.
C18_ParentFields ==
    \A i \in DOMAIN out :
        /\ out[i].mother # None
              <=> /\ PersonOf(out[i].qid).mother_qid # None
                  /\ PersonOf(out[i].qid).mother_qid \in all_qids
        /\ out[i].father # None <=> PersonOf(out[i].qid).father_qid # None

\* A finished run printed someone whose father is in the Inclusion Set and
\* whose mother is known and outside it: the block has the father field and
\* no mother field.
C18_Witness ==
    /\ pc = "done"
    /\ \E i \in DOMAIN out :
          /\ PersonOf(out[i].qid).father_qid \in all_qids
          /\ PersonOf(out[i].qid).mother_qid # None
          /\ PersonOf(out[i].qid).mother_qid \notin all_qids
          /\ out[i].father # None
          /\ out[i].mother = None

\* What the top-level loop has yet to start is in ascending order, within S,
\* and after every member of S it has started.
AscendingRest(rest, S) ==
    /\ \A i, j \in DOMAIN rest : i < j => StrLess(rest[i], rest[j])
    /\ Range(rest) \subseteq S
    /\ \A done \in S \ Range(rest), todo_qid \in Range(rest) :
          StrLess(done, todo_qid)
\* The root with its parents, their parents, and so on, as far as they are
\* members of the Inclusion Set.
InSetParents(qid) ==
    IF qid \in DOMAIN person_cache
    THEN {PersonOf(qid).father_qid, PersonOf(qid).mother_qid} \cap all_qids
    ELSE {}
RECURSIVE RootChain(_)
RootChain(k) ==
    IF k = 0 THEN {root_qid}
    ELSE LET nearer == RootChain(k - 1)
         IN  nearer \cup UNION {InSetParents(qid) : qid \in nearer}

\* C19: with the root included, the top-level loop starts the root and then
\* the descendants in ascending order, and what is printed up to the root's
\* block is the root's chain of in-set parents; with the root excluded it
\* starts the ancestor set in ascending order.  A grandfather, father and
\* child all in the Inclusion Set are printed in that order.
C19_EmissionOrder ==
    /\ pc = "emit" =>
          IF ~include_root_entry THEN AscendingRest(queue, ancestor_qids)
          ELSE IF Len(queue) = Cardinality(descendant_qids) + 1
          THEN /\ Head(queue) = root_qid
               /\ AscendingRest(Tail(queue), descendant_qids)
          ELSE AscendingRest(queue, descendant_qids)
    /\ \A i \in DOMAIN out :
          (include_root_entry /\ ~PrintedBefore(root_qid, i))
              => out[i].qid \in RootChain(NumQ)
    /\ \A i, j, k \in DOMAIN out :
          (/\ PersonOf(out[k].qid).father_qid = out[j].qid
           /\ PersonOf(out[j].qid).father_qid = out[i].qid
           /\ i # j /\ j # k /\ i # k)
              => i < j /\ j < k

\* A finished run printed the root and then two descendants in ascending
\* order.
C19_Witness ==
    /\ pc = "done"
    /\ include_root_entry
    /\ Len(out) = 3
    /\ out[1].qid = root_qid
    /\ {out[2].qid, out[3].qid} \subseteq descendant_qids
    /\ StrLess(out[2].qid, out[3].qid)

\* C20: a second run with the same root, arguments and oracle answers ends as
\* the first did, with the same sequence of printed blocks and the same
\* qid_to_char_id, in whatever order either run's completer visits its
\* frontier.
C20_Deterministic ==
    (probe # NoProbe /\ pc \in {"done", "ValueError", "RecursionError"})
        => /\ pc = probe.first.pc
           /\ out = probe.first.out
           /\ qid_to_char_id = probe.first.qid_to_char_id

\* A second run has finished and printed three blocks under colliding
\* labels; its completer had a frontier of two members to visit in either
\* order, and added a father.
C20_Witness ==
    /\ probe # NoProbe
    /\ pc = "done"
    /\ Len(out) = 3
    /\ Cardinality(ancestor_qids \cup descendant_qids) = 2
    /\ all_qids # ancestor_qids \cup descendant_qids
    /\ \E i, j \in DOMAIN out :
          /\ i # j
          /\ PersonOf(out[i].qid).label_en # None
          /\ lower(PersonOf(out[i].qid).label_en)
                = lower(PersonOf(out[j].qid).label_en)

\* The texts the files of one directory and one language class give a key.
TextsOf(paths, english, key) ==
    {paths[i].entries[j][2] :
        <<i, j>> \in {<<i, j>> \in (DOMAIN paths) \X (1..2) :
                         /\ paths[i].english = english
                         /\ j \in DOMAIN paths[i].entries
                         /\ paths[i].entries[j][1] = key}}

\* C21: a key that a base-game file and a mod file of the language class
\* that decides it both define has the mod file's text in the result, and a
\* key defined in an English and in a non-English file has the English text.
C21_ModPreferred ==
    pc = "loaded" =>
        \A key \in {"key_a", "key_b"} :
            /\ (/\ TextsOf(probe.base_paths, TRUE, key) # {}
                /\ TextsOf(probe.mod_paths, TRUE, key) # {})
                  => probe.result[key] \in TextsOf(probe.mod_paths, TRUE, key)
            /\ (/\ TextsOf(probe.base_paths, FALSE, key) # {}
                /\ TextsOf(probe.mod_paths, FALSE, key) # {}
                /\ TextsOf(probe.base_paths, TRUE, key) = {}
                /\ TextsOf(probe.mod_paths, TRUE, key) = {})
                  => probe.result[key] \in TextsOf(probe.mod_paths, FALSE, key)
            /\ (TextsOf(probe.base_paths, TRUE, key)
                    \cup TextsOf(probe.mod_paths, TRUE, key) # {})
                  => probe.result[key]
                        \in TextsOf(probe.base_paths, TRUE, key)
                               \cup TextsOf(probe.mod_paths, TRUE, key)

\* C22: the recursion of emit_parents_first is bounded: no identifier has two
\* activations of emit_parents_first on the stack at once, and the run never
\* ends by exhausting the stack.
C22_EmissionTerminates ==
    /\ pc # "RecursionError"
    /\ pc = "emit" =>
          \A i, j \in DOMAIN stack :
              (/\ i # j
               /\ stack[i].fn = "emit_parents_first"
               /\ stack[j].fn = "emit_parents_first")
                  => normalize_qid(stack[i].qid) # normalize_qid(stack[j].qid)

\* The identifiers some chain of at most k father / mother links of the
\* oracle's answers connects to the root.
OracleParentsOf(qid) ==
    {ParentQid(BindingOf(oracle, qid).father),
     ParentQid(BindingOf(oracle, qid).mother)} \ {None}
RECURSIVE ConnectedWithin(_)
ConnectedWithin(k) ==
    IF k = 0 THEN {root_qid}
    ELSE LET nearer == ConnectedWithin(k - 1)
         IN  nearer \cup UNION {OracleParentsOf(qid) : qid \in nearer}

\* C23: once gather_ancestors has returned to the body, every person other
\* than the root whom at most max_ancestor_depth parent links connect to the
\* root and who is alive at the cutoff with a known birth is in the ancestor
\* set.
C23_AncestorsComplete ==
    pc \in {"descendants", "complete", "emit", "done"} =>
        \A qid \in ConnectedWithin(args.max_ancestor_depth) \ {root_qid} :
            (/\ BindingOf(oracle, qid).ok
             /\ AliveRule(BindingOf(oracle, qid).birth,
                          BindingOf(oracle, qid).death, CUTOFF_DATE, TRUE))
                => qid \in ancestor_qids

====
